---- MODULE Spec2Model ----
(***************************************************************************)
(* Black-Scholes pricing and Greeks (Black_Scholes.py) and the two        *)
(* front-ends that call them (the command-line prompts of Black_Scholes.py *)
(* and the dashboard of app.py).                                           *)
(*                                                                         *)
(* Numbers.  A Python/numpy float is modelled as an extended fixed-point   *)
(* number: either a finite value, kept as an integer count of units of     *)
(* 1/SCALE (seven decimal places), or one of NaN, +inf, -inf.  The finite  *)
(* operations round to the nearest unit, half away from zero; division by  *)
(* zero, log of zero or of a negative number and the square root of a      *)
(* negative number give the IEEE-754 results numpy gives (inf, nan) and    *)
(* these propagate as in IEEE-754.  A finite result that leaves the 32-bit *)
(* range stops the evaluation: the inputs enumerated below stay inside it. *)
(***************************************************************************)
EXTENDS Integers, Sequences, FiniteSets, TLC

\* One unit of the fixed-point representation is 1/SCALE.
SCALE == 10000000

\* Splitting base of the multiplication (SCALE = HALF * LOW).
HALF == 10000
LOW == 1000

Abs(x) == IF x < 0 THEN -x ELSE x

Sgn(x) == IF x < 0 THEN -1 ELSE IF x > 0 THEN 1 ELSE 0

\* Exact product of two naturals as <<q, rem>> with a*b = q*SCALE + rem.
MulParts(a, b) ==
  LET Carried(high, low) == << high + (low \div SCALE), low % SCALE >>
      Crossed(ah, al, bh, bl, t1, t2) ==
        Carried(ah * bh * 10 + (t1 \div LOW) + (t2 \div LOW),
                ((t1 % LOW) + (t2 % LOW)) * HALF + al * bl)
      Halves(ah, al, bh, bl) == Crossed(ah, al, bh, bl, ah * bl, al * bh)
  IN  Halves(a \div HALF, a % HALF, b \div HALF, b % HALF)

\* a*b/SCALE of two naturals, rounded to nearest.
MulNat(a, b) ==
  LET RoundedProduct(p) == IF 2 * p[2] >= SCALE THEN p[1] + 1 ELSE p[1]
  IN  RoundedProduct(MulParts(a, b))

\* Signed fixed-point product.
MulI(a, b) == Sgn(a) * Sgn(b) * MulNat(Abs(a), Abs(b))

\* The next decimal digit of r/b, 0 <= r < b: the largest d with d*b <= 10*r,
\* compared without forming 10*r (b = 10*(b \div 10) + b % 10).
NextDigit(r, b) ==
  CHOOSE d \in 0..9 :
    /\ d * (b \div 10) + ((d * (b % 10) + 9) \div 10) <= r
    /\ d = 9 \/ (d + 1) * (b \div 10) + (((d + 1) * (b % 10) + 9) \div 10) > r

\* <<q, rem>> with r * 10^digits = q*b + rem, for 0 <= r < b.
RECURSIVE DigitsDivRem(_, _, _)
DigitsDivRem(r, digits, b) ==
  IF digits = 0 THEN << 0, r >>
  ELSE LET Appended(h, d) ==
             << 10 * h[1] + d, 10 * (h[2] - d * (b \div 10)) - d * (b % 10) >>
           OneMore(h) == Appended(h, NextDigit(h[2], b))
       IN  OneMore(DigitsDivRem(r, digits - 1, b))

\* Decimal digits of SCALE.
DIGITS == 7

\* Whether twice the remainder r reaches the divisor b (r < b).
HalfOrMore(r, b) == r >= b - r

\* a*SCALE/b of naturals (b > 0), rounded to nearest.
DivNat(a, b) ==
  LET RoundedQuotient(f) ==
        (a \div b) * SCALE + f[1] + (IF HalfOrMore(f[2], b) THEN 1 ELSE 0)
  IN  RoundedQuotient(DigitsDivRem(a % b, DIGITS, b))

\* Signed fixed-point quotient, b # 0.
DivI(a, b) == Sgn(a) * Sgn(b) * DivNat(Abs(a), Abs(b))

\* Division by a small integer, rounded to nearest.
DivSmall(a, n) ==
  Sgn(a) * ((Abs(a) \div n) + (IF 2 * (Abs(a) % n) >= n THEN 1 ELSE 0))

\* Whether y*y <= x*SCALE.
SquareAtMost(y, x) ==
  LET AtMost(p) == p[1] < x \/ (p[1] = x /\ p[2] = 0)
  IN  AtMost(MulParts(y, y))

\* Newton's iteration y -> (y + x/y)/2 from above, until it stops decreasing.
RECURSIVE SqrtNewton(_, _)
SqrtNewton(x, y) ==
  LET Iterate(next) == IF next >= y THEN y ELSE SqrtNewton(x, next)
  IN  Iterate((y + DivNat(x, y)) \div 2)

\* sqrt(x) of a natural, rounded to nearest: the floor f is taken next to
\* Newton's result and kept unless f*f + f < x*SCALE.
SqrtNat(x) ==
  IF x = 0 THEN 0
  ELSE LET Nearest(f, p) == IF p[1] + ((p[2] + f) \div SCALE) < x THEN f + 1 ELSE f
           RoundedRoot(f) == Nearest(f, MulParts(f, f))
           FloorNear(y) == CHOOSE c \in (y - 2)..(y + 2) :
                             c >= 0 /\ SquareAtMost(c, x) /\ ~SquareAtMost(c + 1, x)
           RootFrom(y) == RoundedRoot(FloorNear(y))
       IN  RootFrom(SqrtNewton(x, (x + SCALE + 1) \div 2))

\* ln 2, sqrt(1/2), 2/sqrt(pi), 1/sqrt(pi) and sqrt(2*pi) in units of 1/SCALE.
LN2 == 6931472
SQRTH == 7071068
TWO_OVER_SQRTPI == 11283792
ONE_OVER_SQRTPI == 5641896
SQRT2PI == 25066283

\* Brings x > 0 into [0.75, 1.5) by halving or doubling: <<m, k>> with x = m * 2^k.
RECURSIVE LnReduce(_, _)
LnReduce(x, k) ==
  IF 2 * x >= 3 * SCALE THEN LnReduce(DivSmall(x, 2), k + 1)
  ELSE IF 4 * x < 3 * SCALE THEN LnReduce(2 * x, k - 1)
  ELSE << x, k >>

\* z + z^3/3 + z^5/5 + ... with term = z^n, until the term vanishes.
RECURSIVE AtanhSum(_, _, _)
AtanhSum(term, z2, n) ==
  IF term = 0 THEN 0
  ELSE DivSmall(term, n) + AtanhSum(MulI(term, z2), z2, n + 2)

\* Natural logarithm of a finite x > 0.
LnI(x) ==
  LET Series(z, k) == 2 * AtanhSum(z, MulI(z, z), 1) + k * LN2
      Reduced(mk) == Series(DivI(mk[1] - SCALE, mk[1] + SCALE), mk[2])
  IN  Reduced(LnReduce(x, 0))

\* 1 + r + r^2/2! + ... with term = r^(n-1)/(n-1)!, until the term vanishes.
RECURSIVE ExpSum(_, _, _)
ExpSum(term, r, n) ==
  IF term = 0 THEN 0
  ELSE term + ExpSum(DivSmall(MulI(term, r), n), r, n + 1)

RECURSIVE Pow2(_)
Pow2(k) == IF k = 0 THEN 1 ELSE 2 * Pow2(k - 1)

\* Below this argument exp rounds to zero units.
ExpFloor == -20 * SCALE

\* exp of a finite x: x = k*ln2 + r, exp(x) = 2^k * exp(r).
ExpI(x) ==
  IF x < ExpFloor THEN 0
  ELSE LET Scaled(k, e) == IF k >= 0 THEN e * Pow2(k) ELSE DivSmall(e, Pow2(-k))
           Remainder(k) == Scaled(k, ExpSum(SCALE, x - k * LN2, 1))
       IN  Remainder(Sgn(x) * ((2 * Abs(x) + LN2) \div (2 * LN2)))

\* x - x^3/(1!*3) + x^5/(2!*5) - ... with term = (-1)^n x^(2n+1)/n!, two terms
\* at a time, until the term vanishes.
RECURSIVE ErfSum(_, _, _)
ErfSum(term, x2, n) ==
  IF term = 0 THEN 0
  ELSE LET TwoTerms(t1, t2) ==
             DivSmall(term, 2 * n + 1) + DivSmall(t1, 2 * n + 3) + ErfSum(t2, x2, n + 2)
           After(t1) == TwoTerms(t1, -MulI(DivSmall(t1, n + 2), x2))
       IN  After(-MulI(DivSmall(term, n + 1), x2))

\* erf of a finite x, |x| below ErfcSwitch.
ErfI(x) == MulI(TWO_OVER_SQRTPI, ErfSum(x, MulI(x, x), 0))

\* The continued fraction z + (1/2)/(z + 1/(z + (3/2)/(z + ...))), evaluated from
\* level n upwards two levels at a time; acc is the value of the levels below n.
RECURSIVE ErfcFrac(_, _, _)
ErfcFrac(z, n, acc) ==
  IF acc <= 0 \/ n = 0 THEN acc
  ELSE ErfcFrac(z, n - 2,
                z + DivI(((n - 1) * SCALE) \div 2, z + DivI((n * SCALE) \div 2, acc)))

\* Levels of the continued fraction that are evaluated (an even number).
ErfcDepth == 24

\* From here on erfc uses the continued fraction; past ErfcZero it is below one unit.
ErfcSwitch == 15000000
ErfcZero == 42000000

Clamp(x, lo, hi) == IF x < lo THEN lo ELSE IF x > hi THEN hi ELSE x

\* erfc of a finite z >= 0, within [0, 1].
ErfcI(z) ==
  IF z >= ErfcZero THEN 0
  ELSE IF z < ErfcSwitch THEN Clamp(SCALE - ErfI(z), 0, SCALE)
  ELSE Clamp(DivI(MulI(ExpI(-MulI(z, z)), ONE_OVER_SQRTPI), ErfcFrac(z, ErfcDepth, z)),
             0, SCALE)

\* Standard normal cdf of a finite a (scipy's ndtr): 0.5 + 0.5*erf(x) near the
\* origin, 0.5*erfc(|x|) or its complement elsewhere, x = a/sqrt(2).
NdtrI(a) ==
  LET OneTail(x, y) == IF x > 0 THEN SCALE - y ELSE y
      Ndtr(x, z) == IF z < SQRTH THEN (SCALE \div 2) + DivSmall(ErfI(x), 2)
                    ELSE OneTail(x, DivSmall(ErfcI(z), 2))
      NdtrOf(x) == Ndtr(x, Abs(x))
  IN  NdtrOf(MulI(a, SQRTH))

\* exp(-x^2/2) is zero in double precision past this |x| (exp underflows), and
\* below one unit of 1/SCALE already past PdfTiny.
PdfUnderflow == 386000000
PdfTiny == 60000000

\* Standard normal pdf of a finite x: exp(-x^2/2)/sqrt(2*pi).  Between PdfTiny
\* and PdfUnderflow the double-precision value is positive but below one unit:
\* it is kept positive, as one unit.
NormPdfI(x) ==
  IF Abs(x) > PdfUnderflow THEN 0
  ELSE IF Abs(x) > PdfTiny THEN 1
  ELSE LET Positive(p) == IF p = 0 THEN 1 ELSE p
       IN  Positive(DivI(ExpI(-DivSmall(MulI(x, x), 2)), SQRT2PI))

(***************************************************************************)
(* Extended numbers: numpy's float64 results, finite or not.               *)
(***************************************************************************)
Fin(n) == [t |-> "fin", v |-> n]
NaN == [t |-> "nan", v |-> 0]
Inf(s) == [t |-> "inf", v |-> s]

IsFin(x) == x.t = "fin"
IsNaN(x) == x.t = "nan"

FNeg(x) == [t |-> x.t, v |-> -x.v]

FAdd(x, y) ==
  IF IsNaN(x) \/ IsNaN(y) THEN NaN
  ELSE IF IsFin(x) /\ IsFin(y) THEN Fin(x.v + y.v)
  ELSE IF IsFin(x) THEN y
  ELSE IF IsFin(y) THEN x
  ELSE IF x.v = y.v THEN x ELSE NaN

FSub(x, y) == FAdd(x, FNeg(y))

FMul(x, y) ==
  IF IsNaN(x) \/ IsNaN(y) THEN NaN
  ELSE IF IsFin(x) /\ IsFin(y) THEN Fin(MulI(x.v, y.v))
  ELSE IF x.v = 0 \/ y.v = 0 THEN NaN
  ELSE Inf(Sgn(x.v) * Sgn(y.v))

\* numpy's float64 division: x/0 is nan for x = 0 and an infinity otherwise
\* (a warning, no exception); the zero divisors met here are +0.
FDiv(x, y) ==
  IF IsNaN(x) \/ IsNaN(y) THEN NaN
  ELSE IF IsFin(x) /\ IsFin(y)
       THEN IF y.v # 0 THEN Fin(DivI(x.v, y.v))
            ELSE IF x.v = 0 THEN NaN ELSE Inf(Sgn(x.v))
  ELSE IF IsFin(y) THEN Inf(x.v * (IF y.v < 0 THEN -1 ELSE 1))
  ELSE IF IsFin(x) THEN Fin(0)
  ELSE NaN

\* np.log: -inf at 0, nan below.
FLog(x) ==
  IF IsNaN(x) THEN NaN
  ELSE IF IsFin(x)
       THEN IF x.v > 0 THEN Fin(LnI(x.v)) ELSE IF x.v = 0 THEN Inf(-1) ELSE NaN
  ELSE IF x.v > 0 THEN x ELSE NaN

\* np.sqrt: nan below 0.
FSqrt(x) ==
  IF IsNaN(x) THEN NaN
  ELSE IF IsFin(x) THEN (IF x.v >= 0 THEN Fin(SqrtNat(x.v)) ELSE NaN)
  ELSE IF x.v > 0 THEN x ELSE NaN

\* np.exp.
FExp(x) ==
  IF IsNaN(x) THEN NaN
  ELSE IF IsFin(x) THEN Fin(ExpI(x.v))
  ELSE IF x.v > 0 THEN x ELSE Fin(0)

\* st.norm.cdf(x, loc=0, scale=1).
NormCdf(x) ==
  IF IsNaN(x) THEN NaN
  ELSE IF IsFin(x) THEN Fin(NdtrI(x.v))
  ELSE IF x.v > 0 THEN Fin(SCALE) ELSE Fin(0)

\* st.norm.pdf(x).
NormPdf(x) ==
  IF IsNaN(x) THEN NaN
  ELSE IF IsFin(x) THEN Fin(NormPdfI(x.v))
  ELSE Fin(0)

\* Python's comparisons with a nan are all false.
FLe(x, y) ==
  /\ ~IsNaN(x) /\ ~IsNaN(y)
  /\ \/ IsFin(x) /\ IsFin(y) /\ x.v <= y.v
     \/ ~IsFin(x) /\ x.v < 0
     \/ ~IsFin(y) /\ y.v > 0

FLt(x, y) == FLe(x, y) /\ x # y

(***************************************************************************)
(* Strings: an option type is a sequence of characters.                    *)
(***************************************************************************)
Upper == << "A", "C", "L", "P", "T", "U" >>
LowerOf == << "a", "c", "l", "p", "t", "u" >>
Whitespace == {" ", "\t", "\n"}

\* str.lower(), over the alphabet of the option types used here.
LowerChar(c) ==
  IF \E i \in 1..Len(Upper) : Upper[i] = c
  THEN LowerOf[CHOOSE i \in 1..Len(Upper) : Upper[i] = c]
  ELSE c

Lower(str) == [i \in 1..Len(str) |-> LowerChar(str[i])]

\* str.strip(): drops the whitespace at both ends.
RECURSIVE LStrip(_)
LStrip(str) ==
  IF str # << >> /\ Head(str) \in Whitespace THEN LStrip(Tail(str)) ELSE str

RECURSIVE RStrip(_)
RStrip(str) ==
  IF str # << >> /\ str[Len(str)] \in Whitespace
  THEN RStrip(SubSeq(str, 1, Len(str) - 1)) ELSE str

Strip(str) == LStrip(RStrip(str))

CALL == << "c", "a", "l", "l" >>
PUT == << "p", "u", "t" >>

(***************************************************************************)
(* Black_Scholes.py                                                        *)
(***************************************************************************)
NoVals == [n \in {} |-> NaN]

Raised(e) == [status |-> e, vals |-> NoVals]

\* sigma * np.sqrt(T)
SigmaSqrtT(T, sigma) == FMul(Fin(sigma), FSqrt(Fin(T)))

\* d_1 = (np.log(S/K) + (r + 0.5*sigma**2)*T) / (sigma*np.sqrt(T)), K # 0
D1(S, K, T, r, sigma) ==
  FDiv(FAdd(FLog(Fin(DivI(S, K))),
            Fin(MulI(r + MulI(SCALE \div 2, MulI(sigma, sigma)), T))),
       SigmaSqrtT(T, sigma))

\* d_2 = d_1 - sigma*np.sqrt(T)
D2(d1, T, sigma) == FSub(d1, SigmaSqrtT(T, sigma))

\* K * np.exp(-r*T)
Discounted(K, T, r) == FMul(Fin(K), FExp(Fin(-MulI(r, T))))

\* blackscholes with every option type other than 'call' priced as a put.
blackscholes_putByDefault(S, K, T, r, sigma, option_type) ==
  IF T <= 0 /\ sigma <= 0 THEN Raised("ValueError")
  ELSE IF K = 0 THEN Raised("ZeroDivisionError")
  ELSE LET Priced(d_1, d_2, K_disc) ==
             IF option_type = CALL
             THEN [status |-> "returned",
                   vals |-> [price |-> FSub(FMul(Fin(S), NormCdf(d_1)),
                                            FMul(K_disc, NormCdf(d_2)))]]
             ELSE [status |-> "returned",
                   vals |-> [price |-> FSub(FMul(K_disc, NormCdf(FNeg(d_2))),
                                            FMul(Fin(S), NormCdf(FNeg(d_1))))]]
           Formula(d_1) == Priced(d_1, D2(d_1, T, sigma), Discounted(K, T, r))
       IN  Formula(D1(S, K, T, r, sigma))

\* blackscholes with a put priced by the formula of the call.
blackscholes_putAsCall(S, K, T, r, sigma, option_type) ==
  IF T <= 0 /\ sigma <= 0 THEN Raised("ValueError")
  ELSE IF K = 0 THEN Raised("ZeroDivisionError")
  ELSE LET Priced(d_1, d_2, K_disc) ==
             IF option_type = CALL
             THEN [status |-> "returned",
                   vals |-> [price |-> FSub(FMul(Fin(S), NormCdf(d_1)),
                                            FMul(K_disc, NormCdf(d_2)))]]
             ELSE IF option_type = PUT
             THEN [status |-> "returned",
                   vals |-> [price |-> FSub(FMul(Fin(S), NormCdf(d_1)),
                                            FMul(K_disc, NormCdf(d_2)))]]
             ELSE Raised("ValueError")
           Formula(d_1) == Priced(d_1, D2(d_1, T, sigma), Discounted(K, T, r))
       IN  Formula(D1(S, K, T, r, sigma))

\* blackscholes(S, K, T, r, sigma, option_type): d_1, then d_2, then the formula
\* of the option type.
blackscholes(S, K, T, r, sigma, option_type) ==
  IF T <= 0 /\ sigma <= 0 THEN Raised("ValueError")
  ELSE IF K = 0 THEN Raised("ZeroDivisionError")
  ELSE LET Priced(d_1, d_2, K_disc) ==
             IF option_type = CALL
             THEN [status |-> "returned",
                   vals |-> [price |-> FSub(FMul(Fin(S), NormCdf(d_1)),
                                            FMul(K_disc, NormCdf(d_2)))]]
             ELSE IF option_type = PUT
             THEN [status |-> "returned",
                   vals |-> [price |-> FSub(FMul(K_disc, NormCdf(FNeg(d_2))),
                                            FMul(Fin(S), NormCdf(FNeg(d_1))))]]
             ELSE Raised("ValueError")
           Formula(d_1) == Priced(d_1, D2(d_1, T, sigma), Discounted(K, T, r))
       IN  Formula(D1(S, K, T, r, sigma))

\* blackscholes_greek with the delta of a put taken as 1 - cdf(d_1).
blackscholes_greek_putDelta(S, K, T, r, sigma, option_type) ==
  IF T <= 0 \/ sigma <= 0 THEN Raised("returnedValueError")
  ELSE IF K = 0 THEN Raised("ZeroDivisionError")
  ELSE LET Greek(kind, d_1, d_2) ==
             IF kind \notin {CALL, PUT} THEN Raised("returnedValueError")
             ELSE [status |-> "returned",
                   vals |-> [delta |-> IF kind = CALL THEN NormCdf(d_1)
                                       ELSE FSub(Fin(SCALE), NormCdf(d_1)),
                             gamma |-> FDiv(NormPdf(d_1), FMul(Fin(MulI(S, sigma)), FSqrt(Fin(T)))),
                             vega |-> FMul(FMul(Fin(S), NormPdf(d_1)), FSqrt(Fin(T))),
                             d1 |-> d_1, d2 |-> d_2]]
           WithD1(d_1) == Greek(Lower(Strip(option_type)), d_1, D2(d_1, T, sigma))
       IN  WithD1(D1(S, K, T, r, sigma))

\* blackscholes_greek with the gamma of a put taken at d_2.
blackscholes_greek_putGammaAtD2(S, K, T, r, sigma, option_type) ==
  IF T <= 0 \/ sigma <= 0 THEN Raised("returnedValueError")
  ELSE IF K = 0 THEN Raised("ZeroDivisionError")
  ELSE LET Greek(kind, d_1, d_2) ==
             IF kind \notin {CALL, PUT} THEN Raised("returnedValueError")
             ELSE [status |-> "returned",
                   vals |-> [delta |-> IF kind = CALL THEN NormCdf(d_1)
                                       ELSE FSub(NormCdf(d_1), Fin(SCALE)),
                             gamma |-> FDiv(NormPdf(IF kind = PUT THEN d_2 ELSE d_1), FMul(Fin(MulI(S, sigma)), FSqrt(Fin(T)))),
                             vega |-> FMul(FMul(Fin(S), NormPdf(d_1)), FSqrt(Fin(T))),
                             d1 |-> d_1, d2 |-> d_2]]
           WithD1(d_1) == Greek(Lower(Strip(option_type)), d_1, D2(d_1, T, sigma))
       IN  WithD1(D1(S, K, T, r, sigma))

\* blackscholes_greek(S, K, T, r, sigma, option_type): the ValueError is returned,
\* not raised; d_1 is computed before the option type is looked at.
blackscholes_greek(S, K, T, r, sigma, option_type) ==
  IF T <= 0 \/ sigma <= 0 THEN Raised("returnedValueError")
  ELSE IF K = 0 THEN Raised("ZeroDivisionError")
  ELSE LET Greek(kind, d_1, d_2) ==
             IF kind \notin {CALL, PUT} THEN Raised("returnedValueError")
             ELSE [status |-> "returned",
                   vals |-> [delta |-> IF kind = CALL THEN NormCdf(d_1)
                                       ELSE FSub(NormCdf(d_1), Fin(SCALE)),
                             gamma |-> FDiv(NormPdf(d_1), FMul(Fin(MulI(S, sigma)), FSqrt(Fin(T)))),
                             vega |-> FMul(FMul(Fin(S), NormPdf(d_1)), FSqrt(Fin(T))),
                             d1 |-> d_1, d2 |-> d_2]]
           WithD1(d_1) == Greek(Lower(Strip(option_type)), d_1, D2(d_1, T, sigma))
       IN  WithD1(D1(S, K, T, r, sigma))

\* A call of one of the three functions, as the caller wrote it.
Call(fn, S, K, T, r, sigma, option_type) ==
  [fn |-> fn, S |-> S, K |-> K, T |-> T, r |-> r, sigma |-> sigma,
   option_type |-> option_type]

\* The result of a recorded call of blackscholes.
PriceOf(c) == blackscholes(c.S, c.K, c.T, c.r, c.sigma, c.option_type)

\* The five calls with a one-sided volatility bump: the last at sigma.
FiniteDiffCalls_oneSidedVol(S, K, T, r, sigma, option_type, eps_S, eps_sigma) ==
  LET Bumped(kind, dS, dsigma) ==
      << Call("blackscholes", S + dS, K, T, r, sigma, kind),
         Call("blackscholes", S - dS, K, T, r, sigma, kind),
         Call("blackscholes", S, K, T, r, sigma, kind),
         Call("blackscholes", S, K, T, r, sigma + dsigma, kind),
         Call("blackscholes", S, K, T, r, sigma, kind) >>
  IN  Bumped(Lower(Strip(option_type)), MulI(S, eps_S), eps_sigma)

\* The five calls of finite_diff_greeks, in program order.
FiniteDiffCalls(S, K, T, r, sigma, option_type, eps_S, eps_sigma) ==
  LET Bumped(kind, dS, dsigma) ==
      << Call("blackscholes", S + dS, K, T, r, sigma, kind),
         Call("blackscholes", S - dS, K, T, r, sigma, kind),
         Call("blackscholes", S, K, T, r, sigma, kind),
         Call("blackscholes", S, K, T, r, sigma + dsigma, kind),
         Call("blackscholes", S, K, T, r, sigma - dsigma, kind) >>
  IN  Bumped(Lower(Strip(option_type)), MulI(S, eps_S), eps_sigma)

\* The results of the calls of blackscholes in cs, made in order up to and
\* including the first that raises.
RECURSIVE PricesUntilRaised(_)
PricesUntilRaised(cs) ==
  IF cs = << >> THEN << >>
  ELSE LET Then(first) == IF first.status # "returned" THEN << first >>
                           ELSE << first >> \o PricesUntilRaised(Tail(cs))
       IN  Then(PriceOf(Head(cs)))

\* finite_diff_greeks(S, K, T, r, sigma, option_type, eps_S, eps_sigma): the
\* outcome and the calls it made; an exception of a call ends it.
finite_diff_greeks(S, K, T, r, sigma, option_type, eps_S, eps_sigma) ==
  LET Differences(dS, V_up, V_down, V_0, Vol_up, Vol_down) ==
        [delta |-> FDiv(FSub(V_up, V_down), Fin(2 * dS)),
         gamma |-> FDiv(FAdd(FSub(V_up, FMul(Fin(2 * SCALE), V_0)), V_down),
                        Fin(MulI(dS, dS))),
         vega |-> FDiv(FSub(Vol_up, Vol_down), Fin(2 * eps_sigma))]
      Ends(cs, V) ==
        IF V[Len(V)].status # "returned"
        THEN [status |-> V[Len(V)].status, vals |-> NoVals,
              calls |-> SubSeq(cs, 1, Len(V))]
        ELSE [status |-> "returned",
              vals |-> Differences(MulI(S, eps_S), V[1].vals.price, V[2].vals.price,
                                   V[3].vals.price, V[4].vals.price, V[5].vals.price),
              calls |-> cs]
      Made(cs) == Ends(cs, PricesUntilRaised(cs))
  IN  Made(FiniteDiffCalls(S, K, T, r, sigma, option_type, eps_S, eps_sigma))

\* What the caller gets of a result: how it ended and its values.
Result(res) == [status |-> res.status, vals |-> res.vals]

\* The outcome of a call a script makes; finite_diff_greeks is called with its
\* default bumps eps_S = eps_sigma = 1e-4.
Outcome(c) ==
  IF c.fn = "blackscholes"
  THEN blackscholes(c.S, c.K, c.T, c.r, c.sigma, c.option_type)
  ELSE IF c.fn = "blackscholes_greek"
  THEN blackscholes_greek(c.S, c.K, c.T, c.r, c.sigma, c.option_type)
  ELSE Result(finite_diff_greeks(c.S, c.K, c.T, c.r, c.sigma, c.option_type,
                                   SCALE \div 10000, SCALE \div 10000))

\* The outcomes of the calls cs of a script, made in order; the script reaches
\* its next call only when the outcome is one of goes_on's statuses for the call.
RECURSIVE RunCalls(_, _)
RunCalls(cs, goes_on) ==
  IF cs = << >> THEN << >>
  ELSE LET GoesOn(first) == IF first.status \notin Head(goes_on) THEN << first >>
                             ELSE << first >> \o RunCalls(Tail(cs), Tail(goes_on))
       IN  GoesOn(Outcome(Head(cs)))

\* The command-line script of Black_Scholes.py (if __name__ == "__main__"): the
\* calls it makes, in order, and how it ends.  T_days (whole days), r and sigma
\* are the numbers typed; typed is the option type as typed.  The Greeks of the
\* second call are printed (greeks.get) before the third call is made; those of
\* the third only after the fourth.
main(S, K, T_days, r, sigma, typed) ==
  LET Script(T, option_type) ==
        << Call("blackscholes", S, K, T, r, sigma, option_type),
           Call("blackscholes_greek", K, S, T, r, sigma, option_type),
           Call("blackscholes_greek", S, K, T, r, sigma, option_type),
           Call("finite_diff_greeks", S, K, T, r, sigma, option_type) >>
      ScriptEnds(cs, rs) ==
        IF rs[Len(rs)].status # "returned"
        THEN [status |-> IF rs[Len(rs)].status = "returnedValueError"
                         THEN "AttributeError" ELSE rs[Len(rs)].status,
              calls |-> SubSeq(cs, 1, Len(rs)), vals |-> NoVals]
        ELSE IF rs[3].status # "returned"
        THEN [status |-> "AttributeError", calls |-> cs, vals |-> NoVals]
        ELSE [status |-> "returned", calls |-> cs,
              vals |-> [price |-> rs[1].vals.price, greeks |-> rs[2].vals,
                        analytical |-> rs[3].vals, numerical |-> rs[4].vals]]
      ScriptRun(cs) ==
        ScriptEnds(cs, RunCalls(cs, << {"returned"}, {"returned"},
                                       {"returned", "returnedValueError"},
                                       {"returned"} >>))
  IN  ScriptRun(Script(DivI(T_days, 365), Lower(Strip(typed))))

\* The pricing section of the dashboard (app.py, sidebar inputs to the Greeks
\* display): the calls it makes and what it shows.  T_value (whole days, or
\* years), r_dec and sigma_dec are the widget values.  The Greeks are looked
\* into (greeks_call['delta']) only after both calls of blackscholes_greek.
dashboard(S, K, T_unit, T_value, r_dec, sigma_dec, delta_type) ==
  LET Page(T, r, sigma) ==
        << Call("blackscholes", S, K, T, r, sigma, CALL),
           Call("blackscholes", S, K, T, r, sigma, PUT),
           Call("blackscholes_greek", S, K, T, r, sigma, CALL),
           Call("blackscholes_greek", S, K, T, r, sigma, PUT) >>
      PageEnds(cs, rs) ==
        IF rs[Len(rs)].status \notin {"returned", "returnedValueError"}
        THEN [status |-> rs[Len(rs)].status, calls |-> SubSeq(cs, 1, Len(rs)),
              vals |-> NoVals]
        ELSE IF rs[3].status # "returned" \/ rs[4].status # "returned"
        THEN [status |-> "TypeError", calls |-> cs, vals |-> NoVals]
        ELSE [status |-> "returned", calls |-> cs,
              vals |-> [call_price |-> rs[1].vals.price,
                        put_price |-> rs[2].vals.price,
                        greeks_call |-> rs[3].vals,
                        greeks_put |-> rs[4].vals,
                        delta_value |-> IF delta_type = "Call"
                                        THEN rs[3].vals.delta
                                        ELSE rs[4].vals.delta,
                        gamma |-> rs[3].vals.gamma,
                        vega |-> rs[3].vals.vega]]
      PageRun(cs) ==
        PageEnds(cs, RunCalls(cs, << {"returned"}, {"returned"},
                                     {"returned", "returnedValueError"},
                                     {"returned", "returnedValueError"} >>))
  IN  PageRun(Page(IF T_unit = "Days" THEN DivI(T_value, 365) ELSE T_value,
                   DivSmall(r_dec, 100), DivSmall(sigma_dec, 100)))

(***************************************************************************)
(* The inputs that are enumerated.                                         *)
(***************************************************************************)
\* Spot prices 95, 100, ... in steps of 5, and 0.
MaxSpotStep == 2
Spots == {0} \cup {(95 + 5 * i) * SCALE : i \in 0..MaxSpotStep}
Strikes == {0, 100 * SCALE}
Maturities == {-SCALE, 0, SCALE}
Rates == {0, SCALE \div 20}
Vols == {-(SCALE \div 5), 0, SCALE \div 1000, SCALE \div 5}
Kinds == {CALL, PUT, << "C", "A", "L", "L" >>, << " ", "p", "u", "t", " " >>,
          << "i", "n", "v", "a", "l", "i", "d" >>}
\* finite_diff_greeks is run on the nonzero spots and volatilities: at 0 its
\* quotients by the bumps leave the range of the finite numbers.
BumpedSpots == Spots \ {0}
BumpedVols == Vols \ {0}
\* The default bumps (1e-4, 1e-4), and a volatility bump as large as a volatility.
Bumps == {<< SCALE \div 10000, SCALE \div 10000 >>, << SCALE \div 10000, SCALE \div 5 >>}

\* What is typed at the prompts: maturity in whole days, rate and volatility as typed.
TypedSpots == {(95 + 5 * i) * SCALE : i \in 0..MaxSpotStep}
TypedStrikes == {100 * SCALE}
TypedDays == {0, 365}
TypedRates == {SCALE \div 20}
TypedVols == {0, SCALE \div 5}

\* The widget values, within the widgets' ranges.
WidgetSpots == {(95 + 5 * i) * SCALE : i \in 0..MaxSpotStep}
WidgetStrikes == {100 * SCALE, 105 * SCALE}
WidgetMaturities == {<< "Days", 365 >>, << "Years", SCALE >>, << "Years", 2 * SCALE >>}
WidgetRates == {0, 5 * SCALE}
WidgetVols == {SCALE \div 10, 20 * SCALE, 40 * SCALE}
DeltaTypes == {"Call", "Put"}

(***************************************************************************)
(* The state: the operation that has just run ("none" between runs), its   *)
(* arguments as given, the calls it made and its outcome.  Every run       *)
(* starts from scratch: the functions and the scripts keep nothing from    *)
(* one run to the next.                                                    *)
(***************************************************************************)
VARIABLES op, args, calls, out

vars == << op, args, calls, out >>

Args(S, K, T, r, sigma, option_type, eps_S, eps_sigma, unit, delta_type) ==
  [S |-> S, K |-> K, T |-> T, r |-> r, sigma |-> sigma, option_type |-> option_type,
   eps_S |-> eps_S, eps_sigma |-> eps_sigma, unit |-> unit, delta_type |-> delta_type]

Idle ==
  /\ op = "none"
  /\ args = Args(0, 0, 0, 0, 0, << >>, 0, 0, "", "")
  /\ calls = << >>
  /\ out = Raised("none")

Init == Idle

\* The state after a run: the operation, its arguments, the calls it made and
\* its outcome.
Ran(name, given, res) ==
  /\ op' = name
  /\ args' = given
  /\ calls' = res.calls
  /\ out' = Result(res)

\* A call of blackscholes.
Price ==
  /\ op = "none"
  /\ \E S \in Spots, K \in Strikes, T \in Maturities, r \in Rates, sigma \in Vols,
        kind \in Kinds :
       /\ op' = "blackscholes"
       /\ args' = Args(S, K, T, r, sigma, kind, 0, 0, "", "")
       /\ calls' = << Call("blackscholes", S, K, T, r, sigma, kind) >>
       /\ out' = blackscholes(S, K, T, r, sigma, kind)

\* A call of blackscholes_greek.
Greeks ==
  /\ op = "none"
  /\ \E S \in Spots, K \in Strikes, T \in Maturities, r \in Rates, sigma \in Vols,
        kind \in Kinds :
       /\ op' = "blackscholes_greek"
       /\ args' = Args(S, K, T, r, sigma, kind, 0, 0, "", "")
       /\ calls' = << Call("blackscholes_greek", S, K, T, r, sigma, kind) >>
       /\ out' = blackscholes_greek(S, K, T, r, sigma, kind)

\* A call of finite_diff_greeks.
FiniteDiff ==
  /\ op = "none"
  /\ \E S \in BumpedSpots, K \in Strikes, T \in Maturities, r \in Rates,
        sigma \in BumpedVols, kind \in Kinds, eps \in Bumps :
       Ran("finite_diff_greeks", Args(S, K, T, r, sigma, kind, eps[1], eps[2], "", ""),
           finite_diff_greeks(S, K, T, r, sigma, kind, eps[1], eps[2]))

\* A run of the command-line script.
Main ==
  /\ op = "none"
  /\ \E S \in TypedSpots, K \in TypedStrikes, T_days \in TypedDays, r \in TypedRates,
        sigma \in TypedVols, kind \in Kinds :
       Ran("main", Args(S, K, T_days, r, sigma, kind, 0, 0, "Days", ""),
           main(S, K, T_days, r, sigma, kind))

\* A run of the dashboard script.
Dashboard ==
  /\ op = "none"
  /\ \E S \in WidgetSpots, K \in WidgetStrikes, T \in WidgetMaturities,
        r_dec \in WidgetRates, sigma_dec \in WidgetVols, delta_type \in DeltaTypes :
       Ran("dashboard", Args(S, K, T[2], r_dec, sigma_dec, << >>, 0, 0, T[1], delta_type),
           dashboard(S, K, T[1], T[2], r_dec, sigma_dec, delta_type))

\* The run is over: nothing of it is kept.
Return ==
  /\ op # "none"
  /\ op' = "none"
  /\ args' = Args(0, 0, 0, 0, 0, << >>, 0, 0, "", "")
  /\ calls' = << >>
  /\ out' = Raised("none")

Next == Price \/ Greeks \/ FiniteDiff \/ Main \/ Dashboard \/ Return

Spec == Init /\ [][Next]_vars

(***************************************************************************)
(* Properties.                                                             *)
(***************************************************************************)
\* The single error kind of the specification: Python's ValueError, raised or
\* (by blackscholes_greek) returned.
InvalidInput(o) == o.status \in {"ValueError", "returnedValueError"}

\* A result every entry of which is a finite number.
AllFinite(o) == \A n \in DOMAIN o.vals : IsFin(o.vals[n])

\* blackscholes on the arguments of the state.
PriceOfArgs ==
  blackscholes(args.S, args.K, args.T, args.r, args.sigma, args.option_type)

\* The spot and the strike are positive, as the data model has them.
PositiveSpotStrike == args.S > 0 /\ args.K > 0

\* C1: blackscholes fails with an InvalidInput error whenever T <= 0 or
\* sigma <= 0, whatever the spot, strike, rate and option type are (stated for
\* positive spots and strikes).
C1_RejectsNonPositive ==
  (op = "blackscholes" /\ PositiveSpotStrike /\ (args.T <= 0 \/ args.sigma <= 0))
    => out.status = "ValueError"

\* C2: blackscholes_greek yields an InvalidInput error exactly when blackscholes
\* does on the same arguments, that is exactly when T <= 0, sigma <= 0 or the
\* option type is not 'call' or 'put' (stated for positive spots and strikes).
C2_SamePreconditions ==
  (op = "blackscholes_greek" /\ PositiveSpotStrike)
    => /\ InvalidInput(out) <=> InvalidInput(PriceOfArgs)
       /\ InvalidInput(out) <=>
            (args.T <= 0 \/ args.sigma <= 0 \/ args.option_type \notin {CALL, PUT})

ParityTol == 10

\* |x| < tol for an extended number x.
Within(x, tol) == IsFin(x) /\ Abs(x.v) < tol

ValidGreeks ==
  /\ op = "blackscholes_greek" /\ out.status = "returned"
  /\ args.S > 0 /\ args.K > 0 /\ args.T > 0 /\ args.sigma > 0

\* The ranges of delta: [0, 1] for a call, [-1, 0] for a put.
DeltaInRange ==
  IF Lower(Strip(args.option_type)) = CALL
  THEN FLe(Fin(0), out.vals.delta) /\ FLe(out.vals.delta, Fin(SCALE))
  ELSE FLe(Fin(-SCALE), out.vals.delta) /\ FLe(out.vals.delta, Fin(0))

\* C5 as stated: on every valid input, delta is within its range and gamma and
\* vega are strictly positive.
C5_GreekRanges ==
  ValidGreeks
    => /\ DeltaInRange
       /\ FLt(Fin(0), out.vals.gamma)
       /\ FLt(Fin(0), out.vals.vega)

\* C5 as amended: on every valid input, delta is within its range and gamma
\* and vega are not negative (they are 0 once the density of d1 underflows).
C5_GreekRangesNonNegative ==
  ValidGreeks
    => /\ DeltaInRange
       /\ FLe(Fin(0), out.vals.gamma)
       /\ FLe(Fin(0), out.vals.vega)

\* C5 witness: the Greeks of a put on a valid input, with delta strictly
\* between -1 and 0 and positive gamma and vega.
C5_Witness ==
  /\ ValidGreeks
  /\ Lower(Strip(args.option_type)) = PUT
  /\ FLt(Fin(-SCALE), out.vals.delta) /\ FLt(out.vals.delta, Fin(0))
  /\ FLt(Fin(0), out.vals.gamma) /\ FLt(Fin(0), out.vals.vega)

\* C6: the Greeks of the call and of the put of the same valid inputs, which
\* the dashboard computes side by side, have equal gamma, vega, d1 and d2, and
\* delta(put) = delta(call) - 1.
C6_KindInvariance ==
  (op = "dashboard" /\ out.status = "returned")
    => /\ out.vals.greeks_call.gamma = out.vals.greeks_put.gamma
       /\ out.vals.greeks_call.vega = out.vals.greeks_put.vega
       /\ out.vals.greeks_call.d1 = out.vals.greeks_put.d1
       /\ out.vals.greeks_call.d2 = out.vals.greeks_put.d2
       /\ out.vals.greeks_put.delta = FSub(out.vals.greeks_call.delta, Fin(SCALE))
       /\ \A n \in DOMAIN out.vals.greeks_call : IsFin(out.vals.greeks_call[n])

\* C6 witness: the dashboard has computed the Greeks of a call and of a put
\* whose gamma is not zero and whose deltas differ.
C6_Witness ==
  /\ op = "dashboard" /\ out.status = "returned"
  /\ calls[3].option_type = CALL /\ calls[4].option_type = PUT
  /\ out.vals.greeks_call.delta # out.vals.greeks_put.delta
  /\ FLt(Fin(0), out.vals.greeks_put.gamma)

\* C8: every call of the three functions either returns a result all of whose
\* entries are finite numbers or fails with an InvalidInput error, and
\* finite_diff_greeks fails when sigma <= eps_sigma or T <= 0 (stated for
\* positive spots and strikes).
C8_AllOrNothing ==
  (op \in {"blackscholes", "blackscholes_greek", "finite_diff_greeks"}
     /\ PositiveSpotStrike)
    => /\ \/ out.status = "returned" /\ AllFinite(out)
          \/ InvalidInput(out)
       /\ (op = "finite_diff_greeks" /\ (args.sigma <= args.eps_sigma \/ args.T <= 0))
            => InvalidInput(out)

\* The call of blackscholes that finite_diff_greeks is to make with spot S and
\* volatility sigma, the other arguments being those of the state.
Expected(S, sigma, option_type) ==
  Call("blackscholes", S, args.K, args.T, args.r, sigma, option_type)

\* The five calls with the option type given.
ExpectedCalls(option_type) ==
  LET dS == MulI(args.S, args.eps_S)
  IN  << Expected(args.S + dS, args.sigma, option_type),
         Expected(args.S - dS, args.sigma, option_type),
         Expected(args.S, args.sigma, option_type),
         Expected(args.S, args.sigma + args.eps_sigma, option_type),
         Expected(args.S, args.sigma - args.eps_sigma, option_type) >>

\* The central differences of the prices of the calls made.
CentralDifferences ==
  LET dS == MulI(args.S, args.eps_S)
      V(i) == PriceOf(calls[i]).vals.price
  IN  /\ out.vals.delta = FDiv(FSub(V(1), V(2)), Fin(2 * dS))
      /\ out.vals.gamma =
           FDiv(FAdd(FSub(V(1), FMul(Fin(2 * SCALE), V(3))), V(2)), Fin(MulI(dS, dS)))
      /\ out.vals.vega = FDiv(FSub(V(4), V(5)), Fin(2 * args.eps_sigma))

\* C9 as stated: for any inputs finite_diff_greeks calls blackscholes exactly
\* five times, at (S+dS, sigma), (S-dS, sigma), (S, sigma), (S, sigma+eps_sigma)
\* and (S, sigma-eps_sigma) with K, T, r and the option type unchanged, and
\* returns the central differences of the five prices.
C9_FiveCalls ==
  op = "finite_diff_greeks"
    => /\ calls = ExpectedCalls(args.option_type)
       /\ out.status = "returned"
       /\ DOMAIN out.vals = {"delta", "gamma", "vega"}
       /\ CentralDifferences

\* C9 as amended: finite_diff_greeks calls only blackscholes, with the option
\* type stripped and lower-cased and K, T, r unchanged, in the order above; it
\* stops at the first call that raises and fails with that error, and when all
\* five calls return it returns the central differences of the five prices.
C9_FiveCallsUnlessRaised ==
  op = "finite_diff_greeks"
    => LET want == ExpectedCalls(Lower(Strip(args.option_type)))
       IN  /\ Len(calls) \in 1..5
           /\ calls = SubSeq(want, 1, Len(calls))
           /\ \A i \in 1..(Len(calls) - 1) : PriceOf(calls[i]).status = "returned"
           /\ out.status = PriceOf(calls[Len(calls)]).status
           /\ out.status = "returned"
                => /\ Len(calls) = 5
                   /\ DOMAIN out.vals = {"delta", "gamma", "vega"}
                   /\ CentralDifferences

\* C9 witness: finite_diff_greeks has made its five calls for an option type
\* that needed normalising, and has returned finite central differences.
C9_Witness ==
  /\ op = "finite_diff_greeks" /\ out.status = "returned"
  /\ Len(calls) = 5
  /\ args.option_type # Lower(Strip(args.option_type))
  /\ AllFinite(out)
  /\ calls[4].sigma # calls[5].sigma /\ calls[1].S # calls[2].S

\* C10: every call of blackscholes and blackscholes_greek made by the two
\* front-ends passes the entered spot as S and the entered strike as K and a
\* maturity entered in days divided by 365; the dashboard, where rate and
\* volatility are entered in percent, passes them divided by 100.
C10_ConvertedInputs ==
  op \in {"main", "dashboard"}
    => \A i \in 1..Len(calls) :
         calls[i].fn \in {"blackscholes", "blackscholes_greek"}
           => /\ calls[i].S = args.S
              /\ calls[i].K = args.K
              /\ args.unit = "Days" => calls[i].T = DivI(args.T, 365)
              /\ op = "dashboard"
                   => /\ calls[i].r = DivSmall(args.r, 100)
                      /\ calls[i].sigma = DivSmall(args.sigma, 100)
====
